---- MODULE Spec2Model ----
(***************************************************************************)
(* Model of tools/python/xen/xend/XendAPI.py: the response envelope, the   *)
(* reference guards, the composition pass of XendAPI.__init__ that wraps    *)
(* the handlers of the class with their validators, and the handlers.       *)
(*                                                                          *)
(* The class namespace of XendAPI is the variable attrs: handler name ->    *)
(* [body, chain, api].  body names the function defined in the class body   *)
(* (or the cheat lambda), chain is the sequence of decorators wrapped       *)
(* around it, innermost first, and api is the value of the 'api' attribute  *)
(* ("" when the attribute is not set).                                      *)
(***************************************************************************)
EXTENDS Integers, Sequences, FiniteSets, TLC

VARIABLES attrs, init, warned, sessions, issued, allow_new_domains,
          domains, paused, devs, created, req

vars == <<attrs, init, warned, sessions, issued, allow_new_domains,
          domains, paused, devs, created, req>>

(***************************************************************************)
(* Bounds                                                                   *)
(***************************************************************************)
\* number of sessions the auth manager hands out in one run
MaxLogins == 1
\* number of domains and devices XendDomain creates in one run
MaxCreated == 1

(***************************************************************************)
(* Python values: a type tag and a printable value                          *)
(***************************************************************************)
PyStr(s) == [t |-> "str", v |-> s]
PyInt(s) == [t |-> "int", v |-> s]
PyNone == [t |-> "NoneType", v |-> "None"]
PyList(s) == [t |-> "list", v |-> s]
PyDict(s) == [t |-> "dict", v |-> s]
\* type(x) == type(str())
IsStr(x) == x.t = "str"

(***************************************************************************)
(* str.lower()                                                              *)
(***************************************************************************)
UpperCase ==
  [A |-> "a", B |-> "b", C |-> "c", D |-> "d", E |-> "e", F |-> "f",
   G |-> "g", H |-> "h", I |-> "i", J |-> "j", K |-> "k", L |-> "l",
   M |-> "m", N |-> "n", O |-> "o", P |-> "p", Q |-> "q", R |-> "r",
   S |-> "s", T |-> "t", U |-> "u", V |-> "v", W |-> "w", X |-> "x",
   Y |-> "y", Z |-> "z"]

lower_char(c) == IF c \in DOMAIN UpperCase THEN UpperCase[c] ELSE c

RECURSIVE lower(_)
lower(s) == IF s = "" THEN "" ELSE lower_char(Head(s)) \o lower(Tail(s))

(***************************************************************************)
(* Error codes (XendAPIConstants) and the response envelope                 *)
(***************************************************************************)
XEND_ERROR_AUTHENTICATION_FAILED == "AUTHENTICATION_FAILED"
XEND_ERROR_SESSION_INVALID == "SESSION_INVALID"
XEND_ERROR_DOMAIN_INVALID == "DOMAIN_INVALID"
XEND_ERROR_HOST_INVALID == "HOST_INVALID"
XEND_ERROR_HOST_RUNNING == "HOST_RUNNING"
XEND_ERROR_HOST_CPU_INVALID == "HOST_CPU_INVALID"
XEND_ERROR_UNSUPPORTED == "UNSUPPORTED"
XEND_ERROR_VM_INVALID == "VM_INVALID"
XEND_ERROR_VBD_INVALID == "VBD_INVALID"
XEND_ERROR_VIF_INVALID == "VIF_INVALID"
XEND_ERROR_TODO == "TODO"

NoValue == [t |-> "absent", v |-> ""]

xen_api_success(value) ==
  [Status |-> "Success", Value |-> value, ErrorDescription |-> ""]
xen_api_success_void == xen_api_success(PyStr(""))
xen_api_error(error) ==
  [Status |-> "Error", Value |-> NoValue, ErrorDescription |-> error]
xen_api_todo ==
  [Status |-> "Error", Value |-> NoValue, ErrorDescription |-> XEND_ERROR_TODO]
\* the dictionary the reference guards build themselves
guard_failure(error) ==
  [Status |-> "Failure", Value |-> NoValue, ErrorDescription |-> error]
\* an exception that leaves the handler: no envelope is returned
raised(exc) ==
  [Status |-> "Raised", Value |-> NoValue, ErrorDescription |-> exc]
NoResponse == [Status |-> "None", Value |-> NoValue, ErrorDescription |-> ""]

(***************************************************************************)
(* Class descriptors                                                        *)
(***************************************************************************)
classes ==
  [Session  |-> <<"session_required">>,
   Host     |-> <<"valid_host", "session_required">>,
   Host_CPU |-> <<"valid_host_cpu", "session_required">>,
   VM       |-> <<"valid_vm", "session_required">>,
   VBD      |-> <<"valid_vbd", "session_required">>,
   VIF      |-> <<"valid_vif", "session_required">>]

Base_attr_ro == <<"uuid">>
Base_attr_rw == <<>>
Base_methods == <<"destroy", "to_XML", "get_record">>
Base_funcs == <<"create", "get_by_uuid", "get_all">>

Session_attr_ro == <<"this_host", "this_user">>
Session_methods == <<"logout">>

Host_attr_ro == <<"software_version", "resident_VMs", "host_CPUs">>
Host_attr_rw == <<"name_label", "name_description">>
Host_methods == <<"disable", "enable", "reboot", "shutdown">>
Host_funcs == <<"get_by_label">>

Host_CPU_attr_ro == <<"host", "number", "features", "utilisation">>

VM_attr_ro ==
  <<"power_state", "resident_on", "memory_actual", "memory_static_max",
    "memory_static_min", "VCPUs_number", "VCPUs_utilisation",
    "VCPUs_features_required", "VCPUs_can_use", "VIFs", "VBDs",
    "TPM_instance", "TPM_backend", "PCI_bus", "tools_version">>

VM_attr_rw ==
  <<"name_label", "name_description", "user_version", "is_a_template",
    "memory_dynamic_max", "memory_dynamic_min", "VCPUs_policy",
    "VCPUs_params", "VCPUs_features_force_on", "VCPUS_features_force_off",
    "actions_after_shutdown", "actions_after_reboot",
    "actions_after_suspend", "actions_after_crash", "bios_boot",
    "platform_std_VGA", "platform_serial", "platform_localtime",
    "platform_clock_offset", "platform_enable_audio", "builder",
    "boot_method", "kernel_kernel", "kernel_initrd", "kernel_args",
    "grub_cmdline", "other_config">>

VM_methods ==
  <<"clone", "start", "pause", "unpause", "clean_shutdown", "clean_reboot",
    "hard_shutdown", "hard_reboot", "suspend", "resume">>

VM_funcs == <<"get_by_label">>

VBD_attr_ro ==
  <<"image", "IO_bandwidth_incoming_kbs", "IO_bandwidth_outgoing_kbs">>
VBD_attr_rw == <<"VM", "VDI", "device", "mode", "driver">>

VIF_attr_ro ==
  <<"network_read_kbs", "network_write_kbs", "IO_bandwidth_incoming_kbs",
    "IO_bandwidth_outgoing_kbs">>
VIF_attr_rw == <<"name", "type", "device", "network", "VM", "MAC", "MTU">>

\* the list attributes of the class that the pass looks up by name
ClassLists ==
  [Session_attr_ro |-> Session_attr_ro, Session_methods |-> Session_methods,
   Host_attr_ro |-> Host_attr_ro, Host_attr_rw |-> Host_attr_rw,
   Host_methods |-> Host_methods, Host_funcs |-> Host_funcs,
   Host_CPU_attr_ro |-> Host_CPU_attr_ro,
   VM_attr_ro |-> VM_attr_ro, VM_attr_rw |-> VM_attr_rw,
   VM_methods |-> VM_methods, VM_funcs |-> VM_funcs,
   VBD_attr_ro |-> VBD_attr_ro, VBD_attr_rw |-> VBD_attr_rw,
   VIF_attr_ro |-> VIF_attr_ro, VIF_attr_rw |-> VIF_attr_rw]

\* getattr(self, name, [])
getattr_list(name) ==
  IF name \in DOMAIN ClassLists THEN ClassLists[name] ELSE <<>>

ro_attrs(cls) == getattr_list(cls \o "_attr_ro")
rw_attrs(cls) == getattr_list(cls \o "_attr_rw")
methods(cls) == getattr_list(cls \o "_methods")
funcs(cls) == getattr_list(cls \o "_funcs")

getter_attrs(cls) == ro_attrs(cls) \o rw_attrs(cls) \o Base_attr_ro
setter_attrs(cls) == rw_attrs(cls) \o Base_attr_rw
method_names(cls) == methods(cls) \o Base_methods
func_names(cls) == funcs(cls) \o Base_funcs

(***************************************************************************)
(* Naming convention and canonical names                                    *)
(***************************************************************************)
\* variant: the declared attribute name is used as written
getter_name_as_declared(cls, attr_name) == lower(cls) \o "_get_" \o attr_name

getter_name(cls, attr_name) == lower(cls) \o "_get_" \o lower(attr_name)
setter_name(cls, attr_name) == lower(cls) \o "_set_" \o lower(attr_name)
method_full_name(cls, method_name) == lower(cls) \o "_" \o lower(method_name)

\* variant: the canonical name is built from the lower-cased attribute
getter_api_lower(cls, attr_name) == cls \o ".get_" \o lower(attr_name)

getter_api(cls, attr_name) == cls \o ".get_" \o attr_name
setter_api(cls, attr_name) == cls \o ".set_" \o attr_name
method_api(cls, method_name) == cls \o "." \o method_name

(***************************************************************************)
(* The functions defined in the body of class XendAPI, by what they do      *)
(***************************************************************************)
\* return xen_api_error(XEND_ERROR_UNSUPPORTED)
UnsupportedDefs ==
  {"session_destroy", "host_destroy", "host_create", "host_cpu_destroy",
   "host_cpu_create", "vm_clone", "vm_hard_reboot", "vbd_get_vdi"}

\* return xen_api_todo()
TodoDefs == {"session_to_xml", "host_cpu_to_xml", "vm_to_xml"}

\* dom = get_vm_by_uuid(vm_ref); return xen_api_todo()
VmLookupTodoDefs ==
  {"vm_get_memory_actual", "vm_get_vcpus_features_required",
   "vm_get_vcpus_can_use", "vm_get_tpm_instance", "vm_get_tpm_backend",
   "vm_get_pci_bus", "vm_get_tools_version", "vm_get_name_description",
   "vm_get_user_version", "vm_get_is_a_template",
   "vm_get_memory_dynamic_max", "vm_get_memory_dynamic_min",
   "vm_get_vcpus_policy", "vm_get_vcpus_params",
   "vm_get_vcpus_features_force_on", "vm_get_vcpus_features_force_off",
   "vm_get_platform_std_vga", "vm_get_platform_serial",
   "vm_get_platform_localtime", "vm_get_platform_clock_offset",
   "vm_get_platform_enable_audio", "vm_get_builder", "vm_get_other_config"}

\* dom = get_vm_by_uuid(vm_ref); return xen_api_success('')
VmLookupEmptyDefs ==
  {"vm_get_actions_after_shutdown", "vm_get_actions_after_reboot",
   "vm_get_actions_after_suspend", "vm_get_actions_after_crash",
   "vm_get_bios_boot", "vm_get_boot_method", "vm_get_kernel_kernel",
   "vm_get_kernel_initrd", "vm_get_kernel_args", "vm_get_grub_cmdline"}

\* dom = get_vm_by_uuid(vm_ref); return xen_api_success(dom.<something>)
VmLookupValueDefs ==
  {"vm_get_power_state", "vm_get_memory_static_max",
   "vm_get_memory_static_min", "vm_get_vcpus_number",
   "vm_get_vcpus_utilisation", "vm_get_vifs", "vm_get_vbds",
   "vm_get_name_label"}

\* dom = get_vm_by_uuid(vm_ref); return xen_api_success_void()
VmSetterDefs ==
  {"vm_set_name_label", "vm_set_name_description", "vm_set_user_version",
   "vm_set_is_a_template", "vm_set_memory_dynamic_max",
   "vm_set_memory_dynamic_min", "vm_set_vcpus_policy",
   "vm_set_vcpus_params", "vm_set_vcpus_features_force_on",
   "vm_set_vcpus_features_force_off", "vm_set_actions_after_shutdown",
   "vm_set_actions_after_reboot", "vm_set_actions_after_suspend",
   "vm_set_actions_after_crash", "vm_set_bios_boot",
   "vm_set_platform_std_vga", "vm_set_platform_serial",
   "vm_set_platform_localtime", "vm_set_platform_clock_offset",
   "vm_set_platform_enable_audio", "vm_set_builder", "vm_set_boot_method",
   "vm_set_kernel_kernel", "vm_set_kernel_initrd", "vm_set_kernel_args",
   "vm_set_grub_cmdline", "vm_set_other_config"}

\* xeninfo = get_vm_by_uuid(vm_ref); xeninfo.shutdown(reason)
VmShutdownDefs == {"vm_clean_reboot", "vm_clean_shutdown"}

\* return do_vm_func(fn_name, vm_ref): handler -> fn_name
DoVmFuncDefs ==
  [vm_destroy |-> "domain_delete", vm_hard_shutdown |-> "domain_destroy",
   vm_pause |-> "domain_pause", vm_resume |-> "domain_resume",
   vm_start |-> "domain_start", vm_suspend |-> "domain_suspend",
   vm_unpause |-> "domain_unpause"]

\* return xen_api_success(<a value of XendNode.instance()>)
NodeValueDefs ==
  {"host_get_name_label", "host_set_name_label",
   "host_get_name_description", "host_set_name_description",
   "host_get_software_version", "host_get_host_cpus", "host_get_all",
   "host_cpu_get_all", "host_cpu_get_host", "vm_get_resident_on",
   "session_get_this_host"}

\* return xen_api_success(<a value of the cpu host_cpu_ref>)
HostCpuValueDefs ==
  {"host_cpu_get_uuid", "host_cpu_get_features", "host_cpu_get_utilisation",
   "host_cpu_get_number", "host_cpu_get_record"}

\* return xen_api_success(get_dev_by_uuid('vbd', vbd_ref, field))
VbdValueDefs ==
  {"vbd_get_record", "vbd_get_vm", "vbd_get_device", "vbd_get_mode",
   "vbd_get_driver"}

\* the handlers with a body of their own
OtherDefs ==
  {"session_login_with_password", "session_logout", "session_get_record",
   "session_get_this_user", "host_get_resident_vms", "host_disable",
   "host_enable", "host_reboot", "host_shutdown", "host_get_record",
   "vm_get_all", "vm_get_by_label", "vm_create", "vm_get_record",
   "vbd_create", "vif_create"}

\* every def of the class body that takes a session
ClassDefs ==
  UnsupportedDefs \cup TodoDefs \cup VmLookupTodoDefs \cup VmLookupEmptyDefs
    \cup VmLookupValueDefs \cup VmSetterDefs \cup VmShutdownDefs
    \cup DOMAIN DoVmFuncDefs \cup NodeValueDefs \cup HostCpuValueDefs
    \cup VbdValueDefs \cup OtherDefs

\* the class namespace when the class statement has run: only
\* session_login_with_password carries an api attribute
ClassBody ==
  [n \in ClassDefs |->
     [body |-> n, chain |-> <<>>,
      api |-> IF n = "session_login_with_password"
              THEN "Session.login_with_password" ELSE ""]]

\* the function object the cheat loop installs
CheatLambda == [body |-> "lambda", chain |-> <<>>, api |-> ""]

(***************************************************************************)
(* Decorators                                                               *)
(***************************************************************************)
\* valid_host .. valid_vif keep the api attribute of the wrapped function
valid_ref(guard, func) ==
  [body |-> func.body, chain |-> Append(func.chain, guard), api |-> func.api]

\* XendAuthSessions.session_required: the wrapper has no api attribute
session_required(func) ==
  [body |-> func.body, chain |-> Append(func.chain, "session_required"),
   api |-> ""]

apply_validator(validator, func) ==
  IF validator = "session_required" THEN session_required(func)
  ELSE valid_ref(validator, func)

\* variant: the loop stops before the last validator
RECURSIVE wrap_validators_short(_, _)
wrap_validators_short(func, validators) ==
  IF Len(validators) <= 1 THEN func
  ELSE wrap_validators_short(apply_validator(Head(validators), func),
                             Tail(validators))

\* variant: the validators are applied last to first
RECURSIVE wrap_validators_reversed(_, _)
wrap_validators_reversed(func, validators) ==
  IF validators = <<>> THEN func
  ELSE wrap_validators_reversed(
         apply_validator(validators[Len(validators)], func),
         SubSeq(validators, 1, Len(validators) - 1))

\* for validator in validators: getter = validator(getter)
RECURSIVE wrap_validators(_, _)
wrap_validators(func, validators) ==
  IF validators = <<>> THEN func
  ELSE wrap_validators(apply_validator(Head(validators), func),
                       Tail(validators))

\* variant: class functions get the validators of the class
func_validators_of_class(cls) == classes[cls]

\* method = session_required(method)
func_validators(cls) == <<"session_required">>

set_api(func, api) == [func EXCEPT !.api = api]

\* setattr(XendAPI, name, value)
setattr(ns, name, value) == (name :> value) @@ ns

(***************************************************************************)
(* XendAPI.__init__: the composition pass                                   *)
(***************************************************************************)
LoopItems(cls, loop) ==
  CASE loop = 1 -> getter_attrs(cls)
    [] loop = 2 -> setter_attrs(cls)
    [] loop = 3 -> method_names(cls)
    [] loop = 4 -> func_names(cls)

\* the next (loop, idx) with an item to process, loop 5 when the class is done
RECURSIVE NextItem(_, _, _)
NextItem(cls, loop, idx) ==
  IF loop > 4 THEN [loop |-> 5, idx |-> 1]
  ELSE IF idx > Len(LoopItems(cls, loop)) THEN NextItem(cls, loop + 1, 1)
  ELSE [loop |-> loop, idx |-> idx]

Advance(pos) ==
  LET nxt == NextItem(pos.cls, pos.loop, pos.idx + 1)
  IN IF nxt.loop = 5
     THEN [pos EXCEPT !.cls = "", !.loop = 0, !.idx = 0]
     ELSE [pos EXCEPT !.loop = nxt.loop, !.idx = nxt.idx]

CurrentItem == LoopItems(init.cls, init.loop)[init.idx]

\* for cls in classes.keys(): install the two cheat methods
Cheat(cls) ==
  /\ init.phase = "cheat"
  /\ cls \in init.cheat_todo
  /\ attrs' = setattr(setattr(attrs, lower(cls) \o "_get_by_uuid", CheatLambda),
                      lower(cls) \o "_get_uuid", CheatLambda)
  /\ init' = [init EXCEPT !.cheat_todo = @ \ {cls},
                          !.phase = IF init.cheat_todo = {cls}
                                    THEN "wrap" ELSE "cheat"]
  /\ UNCHANGED <<warned, sessions, issued, allow_new_domains, domains,
                 paused, devs, created, req>>

\* for cls, validators in classes.items(): the four getattr of the lists
NextClass(cls) ==
  /\ init.phase = "wrap"
  /\ init.cls = ""
  /\ cls \in init.wrap_todo
  /\ LET nxt == NextItem(cls, 1, 1)
     IN init' = [init EXCEPT !.wrap_todo = @ \ {cls}, !.cls = cls,
                             !.loop = nxt.loop, !.idx = nxt.idx]
  /\ UNCHANGED <<attrs, warned, sessions, issued, allow_new_domains, domains,
                 paused, devs, created, req>>

\* variant: except AttributeError: pass
WrapOneSilent(full_name, validators, api) ==
  /\ IF full_name \in DOMAIN attrs
     THEN attrs' = setattr(attrs, full_name,
                     set_api(wrap_validators(attrs[full_name], validators),
                             api))
     ELSE UNCHANGED attrs
  /\ init' = Advance(init)
  /\ UNCHANGED <<warned, sessions, issued, allow_new_domains, domains,
                 paused, devs, created, req>>

\* variant: the AttributeError is not caught and ends the pass
WrapOneAborting(full_name, validators, api) ==
  /\ IF full_name \in DOMAIN attrs
     THEN /\ attrs' = setattr(attrs, full_name,
                        set_api(wrap_validators(attrs[full_name], validators),
                                api))
          /\ init' = Advance(init)
     ELSE /\ init' = [init EXCEPT !.wrap_todo = {}, !.cls = "", !.loop = 0,
                                  !.idx = 0]
          /\ UNCHANGED attrs
  /\ UNCHANGED <<warned, sessions, issued, allow_new_domains, domains, paused,
                 devs, created, req>>

\* one iteration of one of the four try/except blocks
WrapOne(full_name, validators, api) ==
  /\ IF full_name \in DOMAIN attrs
     THEN /\ attrs' = setattr(attrs, full_name,
                        set_api(wrap_validators(attrs[full_name], validators),
                                api))
          /\ UNCHANGED warned
     ELSE /\ warned' = warned \cup {full_name}
          /\ UNCHANGED attrs
  /\ init' = Advance(init)
  /\ UNCHANGED <<sessions, issued, allow_new_domains, domains, paused, devs,
                 created, req>>

WrapGetter ==
  /\ init.phase = "wrap" /\ init.cls # "" /\ init.loop = 1
  /\ WrapOne(getter_name(init.cls, CurrentItem), classes[init.cls],
             getter_api(init.cls, CurrentItem))

WrapSetter ==
  /\ init.phase = "wrap" /\ init.cls # "" /\ init.loop = 2
  /\ WrapOne(setter_name(init.cls, CurrentItem), classes[init.cls],
             setter_api(init.cls, CurrentItem))

WrapMethod ==
  /\ init.phase = "wrap" /\ init.cls # "" /\ init.loop = 3
  /\ WrapOne(method_full_name(init.cls, CurrentItem), classes[init.cls],
             method_api(init.cls, CurrentItem))

WrapFunc ==
  /\ init.phase = "wrap" /\ init.cls # "" /\ init.loop = 4
  /\ WrapOne(method_full_name(init.cls, CurrentItem),
             func_validators(init.cls),
             method_api(init.cls, CurrentItem))

\* __init__ returns: the object is handed to the XML-RPC server
Publish ==
  /\ init.phase = "wrap" /\ init.cls = "" /\ init.wrap_todo = {}
  /\ init' = [init EXCEPT !.phase = "published"]
  /\ UNCHANGED <<attrs, warned, sessions, issued, allow_new_domains, domains,
                 paused, devs, created, req>>

Published == init.phase = "published"

\* the methods the server exposes: those with an api attribute
Registered == {attrs[n].api : n \in {m \in DOMAIN attrs : attrs[m].api # ""}}

(***************************************************************************)
(* Collaborators: XendNode, XendAuthSessions, XendDomain                    *)
(***************************************************************************)
\* XendNode.instance(): one host with one physical cpu
NodeUuid == "host0"
NodeCpus == {"cpu0"}
is_valid_host(host_ref) == host_ref = NodeUuid
is_valid_cpu(cpu_ref) == cpu_ref \in NodeCpus

\* the accounts the auth manager accepts, and what callers try
Accounts == {<<"atse", "passwd">>}
Usernames == {"atse"}
Passwords == {"passwd", "wrong"}

\* uuids are fresh: the n-th created object of a kind gets the n-th suffix
IdStr == <<"1", "2", "3", "4">>
NewUuid(kind, n) == kind \o IdStr[n + 1]

\* the state of the collaborators as one value
Collab ==
  [sessions |-> sessions, issued |-> issued, allow |-> allow_new_domains,
   domains |-> domains, paused |-> paused, devs |-> devs,
   created |-> created]

\* auth_manager().is_session_valid(session)
is_session_valid(S, session) ==
  IsStr(session) /\ session.v \in DOMAIN S.sessions
\* auth_manager().get_user(session)
get_user(S, session) ==
  IF IsStr(session) /\ session.v \in DOMAIN S.sessions
  THEN PyStr(S.sessions[session.v]) ELSE PyNone
\* auth_manager().logout(session)
logout(S, session) ==
  IF is_session_valid(S, session)
  THEN [S EXCEPT !.sessions =
          [t \in DOMAIN S.sessions \ {session.v} |-> S.sessions[t]]]
  ELSE S
\* auth_manager().login_with_password(username, password)
login_unconditional(S, username) ==
  LET tok == NewUuid("tok", S.issued)
  IN [tok |-> tok,
      S |-> [S EXCEPT !.sessions = (tok :> username) @@ S.sessions,
                      !.issued = S.issued + 1]]
is_authorized(username, password) == <<username, password>> \in Accounts

\* XendDomain.instance()
is_valid_vm(S, vm_ref) == vm_ref \in S.domains
is_valid_dev(S, kind, dev_ref) ==
  \E d \in S.devs : d.kind = kind /\ d.uuid = dev_ref
CreatedOfKind(S, kind) == {c.uuid : c \in {e \in S.created : e.kind = kind}}

\* create_domain / create_vbd / create_vif register a new object
create_domain(S) ==
  LET uuid == NewUuid("vm", Cardinality(CreatedOfKind(S, "vm")))
  IN [uuid |-> uuid,
      S |-> [S EXCEPT !.domains = @ \cup {uuid},
                      !.created = @ \cup {[kind |-> "vm", uuid |-> uuid]}]]
create_dev(S, kind, vm_ref) ==
  LET uuid == NewUuid(kind, Cardinality(CreatedOfKind(S, kind)))
  IN [uuid |-> uuid,
      S |-> [S EXCEPT !.devs = @ \cup {[kind |-> kind, uuid |-> uuid,
                                         vm |-> vm_ref]},
                      !.created = @ \cup {[kind |-> kind, uuid |-> uuid]}]]

\* the XendDomain functions do_vm_func calls by name
domain_fn(S, fn_name, vm_ref) ==
  CASE fn_name = "domain_delete" ->
         [S EXCEPT !.domains = @ \ {vm_ref}, !.paused = @ \ {vm_ref},
                   !.devs = {d \in @ : d.vm # vm_ref}]
    [] fn_name = "domain_pause" -> [S EXCEPT !.paused = @ \cup {vm_ref}]
    [] fn_name = "domain_unpause" -> [S EXCEPT !.paused = @ \ {vm_ref}]
    [] OTHER -> S

(***************************************************************************)
(* Guards at call time                                                      *)
(***************************************************************************)
GuardError ==
  [valid_host |-> XEND_ERROR_HOST_INVALID,
   valid_host_cpu |-> XEND_ERROR_HOST_CPU_INVALID,
   valid_vm |-> XEND_ERROR_VM_INVALID,
   valid_vbd |-> XEND_ERROR_VBD_INVALID,
   valid_vif |-> XEND_ERROR_VIF_INVALID]

\* variant: valid_vbd asks for the device kind of valid_vif
RegistryHasOneKind(guard, S, ref) ==
  CASE guard = "valid_host" -> is_valid_host(ref)
    [] guard = "valid_host_cpu" -> is_valid_cpu(ref)
    [] guard = "valid_vm" -> is_valid_vm(S, ref)
    [] guard = "valid_vbd" -> is_valid_dev(S, "vif", ref)
    [] guard = "valid_vif" -> is_valid_dev(S, "vif", ref)

\* the registry predicate of a reference guard
RegistryHas(guard, S, ref) ==
  CASE guard = "valid_host" -> is_valid_host(ref)
    [] guard = "valid_host_cpu" -> is_valid_cpu(ref)
    [] guard = "valid_vm" -> is_valid_vm(S, ref)
    [] guard = "valid_vbd" -> is_valid_dev(S, "vbd", ref)
    [] guard = "valid_vif" -> is_valid_dev(S, "vif", ref)

\* check_host_ref .. check_vif_ref: the events of the check, whether the
\* wrapped function is called, and the response when it is not
check_ref(guard, S, args) ==
  LET ref == args[2]
      looked == IsStr(ref)
      ok == IsStr(ref) /\ RegistryHas(guard, S, ref.v)
  IN [ok |-> ok,
      events |-> (IF looked THEN <<[who |-> guard, what |-> "lookup"]>>
                  ELSE <<>>)
                 \o <<[who |-> guard,
                       what |-> IF ok THEN "accept" ELSE "reject"]>>,
      resp |-> guard_failure(GuardError[guard])]

\* session_required.check_session
check_session(S, args) ==
  LET ok == is_session_valid(S, args[1])
  IN [ok |-> ok,
      events |-> <<[who |-> "session_required",
                    what |-> IF ok THEN "accept" ELSE "reject"]>>,
      resp |-> guard_failure(XEND_ERROR_SESSION_INVALID)]

(***************************************************************************)
(* Handler bodies: the set of outcomes [resp, S] of running a body with     *)
(* args = <<session, second argument, ...>> in collaborator state S         *)
(***************************************************************************)
Outcome(resp, S) == [resp |-> resp, S |-> S]

\* the value a handler of NodeValueDefs returns
node_value(body) ==
  CASE body \in {"host_get_name_label", "host_set_name_label"} ->
         PyStr("node.name")
    [] body \in {"host_get_name_description", "host_set_name_description"} ->
         PyStr("node.description")
    [] body = "host_get_software_version" -> PyDict("node.xen_version")
    [] body \in {"host_get_host_cpus", "host_cpu_get_all"} -> PyList(NodeCpus)
    [] body = "host_get_all" -> PyList({NodeUuid})
    [] OTHER -> PyStr(NodeUuid)

\* variant: the except XendError clause is missing
session_login_with_password_uncaught(args, S) ==
  IF is_authorized(args[1].v, args[2].v)
  THEN LET r == login_unconditional(S, args[1].v)
       IN {Outcome(xen_api_success(PyStr(r.tok)), r.S)}
  ELSE {Outcome(raised("XendError"), S)}

session_login_with_password(args, S) ==
  IF is_authorized(args[1].v, args[2].v)
  THEN LET r == login_unconditional(S, args[1].v)
       IN {Outcome(xen_api_success(PyStr(r.tok)), r.S)}
  ELSE {Outcome(xen_api_error(XEND_ERROR_AUTHENTICATION_FAILED), S)}

session_logout(args, S) ==
  {Outcome(xen_api_success_void, logout(S, args[1]))}

\* variant: destroy does what logout does
session_destroy_as_logout(args, S) ==
  {Outcome(xen_api_success_void, logout(S, args[1]))}

session_destroy(args, S) ==
  {Outcome(xen_api_error(XEND_ERROR_UNSUPPORTED), S)}

session_get_this_user(args, S) ==
  LET user == get_user(S, args[1])
  IN IF user.t # "NoneType" THEN {Outcome(xen_api_success(user), S)}
     ELSE {Outcome(xen_api_error(XEND_ERROR_SESSION_INVALID), S)}

host_disable(args, S) ==
  {Outcome(xen_api_success_void, [S EXCEPT !.allow = FALSE])}
host_enable(args, S) ==
  {Outcome(xen_api_success_void, [S EXCEPT !.allow = TRUE])}
\* variant: the test of allow_new_domains() is not negated
host_reboot_inverted(args, S) ==
  IF S.allow THEN {Outcome(xen_api_error(XEND_ERROR_HOST_RUNNING), S)}
  ELSE {Outcome(xen_api_error(XEND_ERROR_UNSUPPORTED), S)}

\* host_reboot and host_shutdown have the same body
host_reboot(args, S) ==
  IF ~S.allow THEN {Outcome(xen_api_error(XEND_ERROR_HOST_RUNNING), S)}
  ELSE {Outcome(xen_api_error(XEND_ERROR_UNSUPPORTED), S)}

\* dom.<attribute> raises AttributeError when get_vm_by_uuid returned None
vm_lookup_value(body, args, S) ==
  IF is_valid_vm(S, args[2].v)
  THEN {Outcome(xen_api_success(PyStr(args[2].v \o "." \o body)), S)}
  ELSE {Outcome(raised("AttributeError"), S)}

vm_shutdown(args, S) ==
  IF is_valid_vm(S, args[2].v)
  THEN {Outcome(xen_api_success_void, S)}
  ELSE {Outcome(raised("AttributeError"), S)}

\* do_vm_func: the XendDomain function either does its work or raises
\* XendError, which do_vm_func does not catch
do_vm_func(fn_name, args, S) ==
  {Outcome(raised("XendError"), S)}
    \cup (IF is_valid_vm(S, args[2].v)
          THEN {Outcome(xen_api_success(PyNone),
                        domain_fn(S, fn_name, args[2].v))}
          ELSE {})

vm_get_by_label(args, S) ==
  IF IsStr(args[2]) /\ is_valid_vm(S, args[2].v)
  THEN {Outcome(xen_api_success(PyStr(args[2].v)), S)}
  ELSE {Outcome(xen_api_error(XEND_ERROR_VM_INVALID), S)}

vm_create(args, S) ==
  LET r == create_domain(S)
  IN {Outcome(xen_api_success(PyStr(r.uuid)), r.S),
      Outcome(raised("XendError"), S)}

\* variant: the body does not test the result of get_vm_by_uuid
vm_get_record_unchecked(args, S) ==
  {Outcome(xen_api_success(PyDict(args[2].v)), S)}

vm_get_record(args, S) ==
  IF ~is_valid_vm(S, args[2].v)
  THEN {Outcome(xen_api_error(XEND_ERROR_VM_INVALID), S)}
  ELSE {Outcome(xen_api_success(PyDict(args[2].v)), S)}

\* variant: the device is created without asking is_valid_vm
dev_create_unchecked(kind, args, S) ==
  IF args[2].t # "dict" THEN {Outcome(raised("TypeError"), S)}
  ELSE LET r == create_dev(S, kind, args[2].v)
       IN {Outcome(xen_api_success(PyStr(r.uuid)), r.S),
           Outcome(xen_api_error(XEND_ERROR_TODO), S)}

\* vbd_create and vif_create: the struct is modelled by its 'VM' entry
dev_create(kind, args, S) ==
  IF args[2].t # "dict" THEN {Outcome(raised("TypeError"), S)}
  ELSE IF is_valid_vm(S, args[2].v)
  THEN LET r == create_dev(S, kind, args[2].v)
       IN {Outcome(xen_api_success(PyStr(r.uuid)), r.S),
           Outcome(xen_api_error(XEND_ERROR_TODO), S)}
  ELSE {Outcome(xen_api_error(XEND_ERROR_DOMAIN_INVALID), S)}

vbd_value(body, args, S) ==
  IF is_valid_dev(S, "vbd", args[2].v)
  THEN {Outcome(xen_api_success(PyStr(args[2].v \o "." \o body)), S)}
  ELSE {Outcome(xen_api_success(PyNone), S)}

\* variant: the lambda returns its session argument
cheat_lambda_sess(args, S) == {Outcome(xen_api_success(args[1]), S)}

\* lambda s, sess, obj_ref: xen_api_success(obj_ref)
cheat_lambda(args, S) == {Outcome(xen_api_success(args[2]), S)}

Run(body, args, S) ==
  CASE body = "lambda" -> cheat_lambda(args, S)
    [] body = "session_destroy" -> session_destroy(args, S)
    [] body \in UnsupportedDefs \ {"session_destroy"} ->
         {Outcome(xen_api_error(XEND_ERROR_UNSUPPORTED), S)}
    [] body \in TodoDefs \cup VmLookupTodoDefs -> {Outcome(xen_api_todo, S)}
    [] body \in VmLookupEmptyDefs -> {Outcome(xen_api_success(PyStr("")), S)}
    [] body \in VmSetterDefs -> {Outcome(xen_api_success_void, S)}
    [] body \in VmLookupValueDefs -> vm_lookup_value(body, args, S)
    [] body \in VmShutdownDefs -> vm_shutdown(args, S)
    [] body \in DOMAIN DoVmFuncDefs -> do_vm_func(DoVmFuncDefs[body], args, S)
    [] body \in NodeValueDefs ->
         {Outcome(xen_api_success(node_value(body)), S)}
    [] body \in HostCpuValueDefs ->
         {Outcome(xen_api_success(PyStr(args[2].v \o "." \o body)), S)}
    [] body \in VbdValueDefs -> vbd_value(body, args, S)
    [] body = "session_login_with_password" ->
         session_login_with_password(args, S)
    [] body = "session_logout" -> session_logout(args, S)
    [] body = "session_get_record" ->
         {Outcome(xen_api_success(PyDict(get_user(S, args[1]).v)), S)}
    [] body = "session_get_this_user" -> session_get_this_user(args, S)
    [] body = "host_get_resident_vms" ->
         {Outcome(xen_api_success(PyList(S.domains)), S)}
    [] body = "host_disable" -> host_disable(args, S)
    [] body = "host_enable" -> host_enable(args, S)
    [] body \in {"host_reboot", "host_shutdown"} -> host_reboot(args, S)
    [] body = "host_get_record" ->
         {Outcome(xen_api_success(PyDict("node")), S)}
    [] body = "vm_get_all" ->
         {Outcome(xen_api_success(PyList(S.domains)), S)}
    [] body = "vm_get_by_label" -> vm_get_by_label(args, S)
    [] body = "vm_create" -> vm_create(args, S)
    [] body = "vm_get_record" -> vm_get_record(args, S)
    [] body = "vbd_create" -> dev_create("vbd", args, S)
    [] body = "vif_create" -> dev_create("vif", args, S)

(***************************************************************************)
(* Requests: the server calls the published method with the arguments of    *)
(* the caller; the wrappers run outermost first, then the body              *)
(***************************************************************************)
Slots == {1, 2}

Idle ==
  [pc |-> "idle", name |-> "", api |-> "", args |-> <<>>, depth |-> 0,
   trace |-> <<>>, resp |-> NoResponse, pre |-> <<>>]

Dom0Uuid == "vm0"
InvalidRef == "nosuch"
InvalidToken == "bogus"

\* the class an api name belongs to
ClassOfApi(api) ==
  CHOOSE cls \in DOMAIN classes :
    Len(api) > Len(cls) /\ SubSeq(api, 1, Len(cls) + 1) = cls \o "."

\* defs that take the session only
SessionOnlyDefs ==
  {"session_logout", "session_destroy", "session_get_record",
   "session_to_xml", "session_get_this_host", "session_get_this_user",
   "host_get_all", "host_cpu_get_all", "vm_get_all"}
\* defs whose second argument is a struct
StructDefs ==
  {"host_create", "host_cpu_create", "vm_create", "vbd_create", "vif_create"}
CreatingDefs == {"vm_create", "vbd_create", "vif_create"}

\* the strings a caller passes as reference of an object of class cls
RefPool(cls, S) ==
  (CASE cls \in {"Session", "Host", "Host_CPU"} -> {NodeUuid} \cup NodeCpus
     [] cls = "VM" -> {Dom0Uuid} \cup CreatedOfKind(S, "vm")
     [] cls \in {"VBD", "VIF"} ->
          CreatedOfKind(S, "vbd") \cup CreatedOfKind(S, "vif"))
  \cup {InvalidRef}

SessionChoices(S) ==
  {PyStr(NewUuid("tok", k)) : k \in 0 .. S.issued - 1}
    \cup {PyStr(InvalidToken)}

SecondChoices(body, api, S) ==
  IF body \in StructDefs
  THEN {PyDict(v) : v \in RefPool("VM", S)} \cup {PyInt("0")}
  ELSE {PyStr(v) : v \in RefPool(ClassOfApi(api), S)} \cup {PyInt("0")}

ArgChoices(func, S) ==
  IF func.body = "session_login_with_password"
  THEN {<<PyStr(u), PyStr(pw)>> : u \in Usernames, pw \in Passwords}
  ELSE IF func.body \in SessionOnlyDefs
  THEN {<<s>> : s \in SessionChoices(S)}
  ELSE {<<s, r>> : s \in SessionChoices(S),
                   r \in SecondChoices(func.body, func.api, S)}

\* the caps that keep the run finite
WithinBounds(func, args, S) ==
  /\ (func.body = "session_login_with_password"
        /\ is_authorized(args[1].v, args[2].v)) => S.issued < MaxLogins
  /\ func.body \in CreatingDefs => Cardinality(S.created) < MaxCreated

\* the methods the server dispatches to once the object is published
Callable ==
  IF Published THEN {n \in DOMAIN attrs : attrs[n].api # ""} ELSE {}

CallWith(i, n, args) ==
  /\ WithinBounds(attrs[n], args, Collab)
  /\ req' = [req EXCEPT ![i] =
       [pc |-> IF attrs[n].chain = <<>> THEN "handler" ELSE "guard",
        name |-> n, api |-> attrs[n].api, args |-> args,
        depth |-> Len(attrs[n].chain), trace |-> <<>>, resp |-> NoResponse,
        pre |-> Collab]]
  /\ UNCHANGED <<attrs, init, warned, sessions, issued, allow_new_domains,
                 domains, paused, devs, created>>

\* a caller invokes a published method with arguments of its choice
Call(i) ==
  /\ req[i].pc = "idle"
  /\ \E n \in Callable :
       \E args \in ArgChoices(attrs[n], Collab) : CallWith(i, n, args)

\* the outermost wrapper not yet run
CurrentGuard(r) == attrs[r.name].chain[r.depth]

\* variant: a rejecting wrapper still calls the wrapped function
AfterGuardFallThrough(r, g) ==
  [r EXCEPT !.trace = @ \o g.events, !.depth = @ - 1,
            !.resp = IF g.ok THEN @ ELSE g.resp,
            !.pc = IF r.depth = 1 THEN "handler" ELSE "guard"]

AfterGuard(r, g) ==
  IF g.ok
  THEN [r EXCEPT !.trace = @ \o g.events, !.depth = @ - 1,
                 !.pc = IF r.depth = 1 THEN "handler" ELSE "guard"]
  ELSE [r EXCEPT !.trace = @ \o g.events, !.resp = g.resp, !.pc = "done"]

CheckSession(i) ==
  /\ req[i].pc = "guard"
  /\ CurrentGuard(req[i]) = "session_required"
  /\ req' = [req EXCEPT ![i] =
               AfterGuard(req[i], check_session(Collab, req[i].args))]
  /\ UNCHANGED <<attrs, init, warned, sessions, issued, allow_new_domains,
                 domains, paused, devs, created>>

\* variant: the reference guard waits while the other worker is between its
\* guard and the end of its handler on the same reference
CheckRefExclusive(i) ==
  /\ req[i].pc = "guard"
  /\ CurrentGuard(req[i]) # "session_required"
  /\ \A j \in Slots \ {i} :
       ~(req[j].pc = "handler" /\ req[j].args[2] = req[i].args[2])
  /\ req' = [req EXCEPT ![i] =
               AfterGuard(req[i], check_ref(CurrentGuard(req[i]), Collab,
                                            req[i].args))]
  /\ UNCHANGED <<attrs, init, warned, sessions, issued, allow_new_domains,
                 domains, paused, devs, created>>

CheckRef(i) ==
  /\ req[i].pc = "guard"
  /\ CurrentGuard(req[i]) # "session_required"
  /\ req' = [req EXCEPT ![i] =
               AfterGuard(req[i], check_ref(CurrentGuard(req[i]), Collab,
                                            req[i].args))]
  /\ UNCHANGED <<attrs, init, warned, sessions, issued, allow_new_domains,
                 domains, paused, devs, created>>

\* variant: the innermost wrapper passes (reference, session) to the wrapped
\* function
HandlerSwappedArgs(i) ==
  /\ req[i].pc = "handler"
  /\ \E o \in Run(attrs[req[i].name].body,
                   IF Len(req[i].args) = 2 /\ attrs[req[i].name].chain # <<>>
                   THEN <<req[i].args[2], req[i].args[1]>> ELSE req[i].args,
                   Collab) :
       /\ req' = [req EXCEPT ![i] =
            [@ EXCEPT !.trace = Append(@, [who |-> "handler",
                                           what |-> attrs[req[i].name].body]),
                      !.resp = o.resp, !.pc = "done"]]
       /\ sessions' = o.S.sessions
       /\ issued' = o.S.issued
       /\ allow_new_domains' = o.S.allow
       /\ domains' = o.S.domains
       /\ paused' = o.S.paused
       /\ devs' = o.S.devs
       /\ created' = o.S.created
  /\ UNCHANGED <<attrs, init, warned>>

\* variant: a handler re-binds the unwrapped function under its name
HandlerRebinding(i) ==
  /\ req[i].pc = "handler"
  /\ \E o \in Run(attrs[req[i].name].body, req[i].args, Collab) :
       /\ req' = [req EXCEPT ![i] =
            [@ EXCEPT !.trace = Append(@, [who |-> "handler",
                                           what |-> attrs[req[i].name].body]),
                      !.resp = o.resp, !.pc = "done"]]
       /\ sessions' = o.S.sessions
       /\ issued' = o.S.issued
       /\ allow_new_domains' = o.S.allow
       /\ domains' = o.S.domains
       /\ paused' = o.S.paused
       /\ devs' = o.S.devs
       /\ created' = o.S.created
  /\ attrs' = setattr(attrs, req[i].name,
                      [attrs[req[i].name] EXCEPT !.chain = <<>>])
  /\ UNCHANGED <<init, warned>>

Handler(i) ==
  /\ req[i].pc = "handler"
  /\ \E o \in Run(attrs[req[i].name].body, req[i].args, Collab) :
       /\ req' = [req EXCEPT ![i] =
            [@ EXCEPT !.trace = Append(@, [who |-> "handler",
                                           what |-> attrs[req[i].name].body]),
                      !.resp = o.resp, !.pc = "done"]]
       /\ sessions' = o.S.sessions
       /\ issued' = o.S.issued
       /\ allow_new_domains' = o.S.allow
       /\ domains' = o.S.domains
       /\ paused' = o.S.paused
       /\ devs' = o.S.devs
       /\ created' = o.S.created
  /\ UNCHANGED <<attrs, init, warned>>

\* the response is sent; the worker takes the next request
Return(i) ==
  /\ req[i].pc = "done"
  /\ req' = [req EXCEPT ![i] = Idle]
  /\ UNCHANGED <<attrs, init, warned, sessions, issued, allow_new_domains,
                 domains, paused, devs, created>>

(***************************************************************************)
(* Specification: the composition pass, then requests served one at a time  *)
(***************************************************************************)
Init ==
  /\ attrs = ClassBody
  /\ init = [phase |-> "cheat", cheat_todo |-> DOMAIN classes,
             wrap_todo |-> DOMAIN classes, cls |-> "", loop |-> 0, idx |-> 0,
             pass |-> 1]
  /\ warned = {}
  /\ sessions = <<>>
  /\ issued = 0
  /\ allow_new_domains = TRUE
  /\ domains = {Dom0Uuid}
  /\ paused = {}
  /\ devs = {}
  /\ created = {}
  /\ req = [i \in Slots |-> Idle]

Next ==
  \/ \E cls \in DOMAIN classes : Cheat(cls)
  \/ \E cls \in DOMAIN classes : NextClass(cls)
  \/ WrapGetter
  \/ WrapSetter
  \/ WrapMethod
  \/ WrapFunc
  \/ Publish
  \/ Call(1)
  \/ CheckSession(1)
  \/ CheckRef(1)
  \/ Handler(1)
  \/ Return(1)

Spec == Init /\ [][Next]_vars

\* __init__ alone: sequential code, every iteration of which is executed
Compose ==
  \/ \E cls \in DOMAIN classes : Cheat(cls)
  \/ \E cls \in DOMAIN classes : NextClass(cls)
  \/ WrapGetter
  \/ WrapSetter
  \/ WrapMethod
  \/ WrapFunc
  \/ Publish

SpecCompose == Init /\ [][Compose]_vars /\ WF_vars(Compose)

(***************************************************************************)
(* Specification: XendAPI is constructed again in the same process; the     *)
(* class namespace is that the earlier construction left                    *)
(***************************************************************************)
MaxPasses == 2

\* XendAPI() is called again: __init__ starts over on the same class
Reconstruct ==
  /\ Published
  /\ init.pass < MaxPasses
  /\ init' = [phase |-> "cheat", cheat_todo |-> DOMAIN classes,
              wrap_todo |-> DOMAIN classes, cls |-> "", loop |-> 0,
              idx |-> 0, pass |-> init.pass + 1]
  /\ UNCHANGED <<attrs, warned, sessions, issued, allow_new_domains, domains,
                 paused, devs, created, req>>

NextTwice == Compose \/ Reconstruct

SpecTwice == Init /\ [][NextTwice]_vars

(***************************************************************************)
(* Specification: two worker threads of the server serve requests for the   *)
(* session and VM operations at the same time; every wrapper call and       *)
(* every handler body is one step                                           *)
(***************************************************************************)
ConcDefs ==
  {"session_login_with_password", "vm_pause", "vm_destroy", "vm_get_record"}

\* the callers pass strings: a token and a VM reference
ConcArgs(func, S) ==
  {a \in ArgChoices(func, S) : \A k \in DOMAIN a : IsStr(a[k])}

CallConc(i) ==
  /\ req[i].pc = "idle"
  /\ \E n \in Callable \cap ConcDefs :
       \E args \in ConcArgs(attrs[n], Collab) : CallWith(i, n, args)

\* the next step of the request of worker i
Step(i) == CheckSession(i) \/ CheckRef(i) \/ Handler(i) \/ Return(i)

NextConc ==
  \/ Compose
  \/ \E i \in Slots : CallConc(i)
  \/ \E i \in Slots : CheckSession(i)
  \/ \E i \in Slots : CheckRef(i)
  \/ \E i \in Slots : Handler(i)
  \/ \E i \in Slots : Return(i)

SpecConc == Init /\ [][NextConc]_vars

(***************************************************************************)
(* Vocabulary of the properties                                             *)
(***************************************************************************)
Range(seq) == {seq[k] : k \in DOMAIN seq}

ClassNames == DOMAIN classes
RefClasses == ClassNames \ {"Session"}

\* canonical names of the declared instance operations of each class
InstanceApis ==
  [cls \in ClassNames |->
     {getter_api(cls, a) : a \in Range(getter_attrs(cls))}
       \cup {setter_api(cls, a) : a \in Range(setter_attrs(cls))}
       \cup {method_api(cls, m) : m \in Range(method_names(cls))}]
\* canonical names of the declared class functions of each class
FuncApis ==
  [cls \in ClassNames |->
     {method_api(cls, f) : f \in Range(func_names(cls))}]

Accept(who) == [who |-> who, what |-> "accept"]
Reject(who) == [who |-> who, what |-> "reject"]
Lookup(who) == [who |-> who, what |-> "lookup"]
HandlerRan(r) == \E k \in DOMAIN r.trace : r.trace[k].who = "handler"
Occurs(r, ev) == \E k \in DOMAIN r.trace : r.trace[k] = ev
\* ev occurs in the trace of r before position k
Before(r, ev, k) == \E j \in 1 .. k - 1 : r.trace[j] = ev
IsDone(r) == r.pc = "done"

\* the reference guard the declaration of a class names
RefGuardOf == [cls \in RefClasses |-> classes[cls][1]]

(***************************************************************************)
(* C1: apart from Session.login_with_password, a handler body runs only     *)
(* after session_required accepted the token of the same call, and the      *)
(* body of an instance operation of Host, Host_CPU, VM, VBD and VIF only    *)
(* after the reference guard of the class accepted the reference as well.   *)
(***************************************************************************)
C1_GuardsBeforeHandler ==
  \A i \in Slots : \A k \in DOMAIN req[i].trace :
    (req[i].trace[k].who = "handler"
       /\ req[i].api # "Session.login_with_password")
    => /\ Before(req[i], Accept("session_required"), k)
       /\ \A cls \in RefClasses :
            req[i].api \in InstanceApis[cls]
            => Before(req[i], Accept(RefGuardOf[cls]), k)

\* Host.get_uuid got through both guards and its body ran
C1_Witness ==
  \E i \in Slots :
    /\ IsDone(req[i]) /\ HandlerRan(req[i])
    /\ req[i].api = "Host.get_uuid"

(***************************************************************************)
(* C2: session_required, listed last, is outermost: a call of an instance   *)
(* operation of Host, Host_CPU, VM, VBD or VIF with an invalid session and  *)
(* an invalid reference is answered SESSION_INVALID by the session guard,   *)
(* and a reference guard is only ever evaluated after session_required      *)
(* accepted.                                                                *)
(***************************************************************************)
RefValidIn(cls, S, ref) ==
  /\ IsStr(ref)
  /\ CASE cls = "Host" -> ref.v = NodeUuid
       [] cls = "Host_CPU" -> ref.v \in NodeCpus
       [] cls = "VM" -> ref.v \in S.domains
       [] cls = "VBD" -> \E d \in S.devs : d.kind = "vbd" /\ d.uuid = ref.v
       [] cls = "VIF" -> \E d \in S.devs : d.kind = "vif" /\ d.uuid = ref.v

SessionValidIn(S, session) ==
  session.t = "str" /\ session.v \in DOMAIN S.sessions

C2_SessionGuardOutermost ==
  \A i \in Slots : \A cls \in RefClasses :
    req[i].api \in InstanceApis[cls]
    => /\ \A k \in DOMAIN req[i].trace :
            req[i].trace[k].who = RefGuardOf[cls]
            => Before(req[i], Accept("session_required"), k)
       /\ (/\ IsDone(req[i])
           /\ ~SessionValidIn(req[i].pre, req[i].args[1])
           /\ ~RefValidIn(cls, req[i].pre, req[i].args[2]))
          => /\ req[i].resp.ErrorDescription = XEND_ERROR_SESSION_INVALID
             /\ req[i].resp.Status \notin {"Success", "Raised"}
             /\ req[i].trace = <<Reject("session_required")>>

\* a VM operation called with a bad token and a bad reference was answered
C2_Witness ==
  \E i \in Slots :
    /\ IsDone(req[i])
    /\ req[i].api = "VM.pause"
    /\ req[i].args = <<PyStr(InvalidToken), PyStr(InvalidRef)>>
    /\ req[i].resp.ErrorDescription = XEND_ERROR_SESSION_INVALID

(***************************************************************************)
(* C3: identity operations.  <Class>.get_by_uuid answers success(r) for     *)
(* any r, existing or not, exactly when session_required accepts the token  *)
(* of the call; <Class>.get_uuid answers success(r) exactly when            *)
(* session_required accepts the token and, for Host, Host_CPU, VM, VBD and  *)
(* VIF, the reference guard of the class accepts r; otherwise the call is   *)
(* rejected by the failing guard and the lambda does not run.               *)
(***************************************************************************)
C3_IdentityBehindGuards ==
  \A i \in Slots : \A cls \in ClassNames :
    IsDone(req[i]) =>
      /\ req[i].api = cls \o ".get_by_uuid" =>
           IF SessionValidIn(req[i].pre, req[i].args[1])
           THEN /\ req[i].resp = xen_api_success(req[i].args[2])
                /\ Len(req[i].trace) = 2
                /\ req[i].trace[1] = Accept("session_required")
           ELSE /\ req[i].resp = guard_failure(XEND_ERROR_SESSION_INVALID)
                /\ ~HandlerRan(req[i])
      /\ req[i].api = cls \o ".get_uuid" =>
           IF ~SessionValidIn(req[i].pre, req[i].args[1])
           THEN /\ req[i].resp = guard_failure(XEND_ERROR_SESSION_INVALID)
                /\ ~HandlerRan(req[i])
           ELSE IF cls = "Session"
                   \/ RefValidIn(cls, req[i].pre, req[i].args[2])
           THEN req[i].resp = xen_api_success(req[i].args[2])
           ELSE /\ req[i].resp = guard_failure(GuardError[RefGuardOf[cls]])
                /\ ~HandlerRan(req[i])

\* VM.get_by_uuid answered success(r) for an r that is not a domain
C3_Witness ==
  \E i \in Slots :
    /\ IsDone(req[i])
    /\ req[i].api = "VM.get_by_uuid"
    /\ req[i].args[2] = PyStr(InvalidRef)
    /\ req[i].resp = xen_api_success(PyStr(InvalidRef))

\* C3 as stated: get_by_uuid and get_uuid of every class answer success(r)
\* for any reference string r with no guard evaluated
C3_IdentityUnguarded ==
  \A i \in Slots : \A cls \in ClassNames :
    (/\ IsDone(req[i])
     /\ req[i].api \in {cls \o ".get_by_uuid", cls \o ".get_uuid"}
     /\ IsStr(req[i].args[2]))
    => /\ req[i].resp = xen_api_success(req[i].args[2])
       /\ \A k \in DOMAIN req[i].trace : req[i].trace[k].who = "handler"

(***************************************************************************)
(* C4 as stated: every response, of a handler or of a guard, has Status     *)
(* Success or Error.                                                        *)
(***************************************************************************)
C4_TwoShapeEnvelope ==
  \A i \in Slots :
    (IsDone(req[i]) /\ req[i].resp.Status # "Raised")
    => req[i].resp.Status \in {"Success", "Error"}

(***************************************************************************)
(* C5: with a valid session, an instance operation of Host, Host_CPU, VM,   *)
(* VBD or VIF whose reference is not a string, or not in the registry of    *)
(* the class (node registry; domain registry by vm, or by device kind), is  *)
(* answered {Status: Failure, ErrorDescription: <CLASS>_INVALID}, and a     *)
(* reference that is not a string is rejected without a registry lookup.    *)
(***************************************************************************)
InvalidErrorOf ==
  [Host |-> "HOST_INVALID", Host_CPU |-> "HOST_CPU_INVALID",
   VM |-> "VM_INVALID", VBD |-> "VBD_INVALID", VIF |-> "VIF_INVALID"]

C5_ReferenceGuardRejection ==
  \A i \in Slots : \A cls \in RefClasses :
    (/\ IsDone(req[i])
     /\ req[i].api \in InstanceApis[cls]
     /\ SessionValidIn(req[i].pre, req[i].args[1])
     /\ ~RefValidIn(cls, req[i].pre, req[i].args[2]))
    => /\ req[i].resp.Status = "Failure"
       /\ req[i].resp.Status # "Error"
       /\ req[i].resp.ErrorDescription = InvalidErrorOf[cls]
       /\ ~HandlerRan(req[i])
       /\ ~IsStr(req[i].args[2]) => ~Occurs(req[i], Lookup(RefGuardOf[cls]))

\* a VBD operation was called with the reference of an existing vif
C5_Witness ==
  \E i \in Slots :
    /\ IsDone(req[i])
    /\ req[i].api = "VBD.get_VM"
    /\ SessionValidIn(req[i].pre, req[i].args[1])
    /\ \E d \in req[i].pre.devs : d.kind = "vif" /\ req[i].args[2] = PyStr(d.uuid)
    /\ req[i].resp.Status = "Failure"

(***************************************************************************)
(* C6: a call rejected by session_required or by a reference guard does     *)
(* not run the wrapped handler, and the allow-new-domains flag, the         *)
(* domains, the devices and the sessions are what they were before it.      *)
(***************************************************************************)
Rejected(r) == \E k \in DOMAIN r.trace : r.trace[k].what = "reject"

C6_NoEffectOnRejection ==
  \A i \in Slots :
    Rejected(req[i])
    => /\ ~HandlerRan(req[i])
       /\ IsDone(req[i])
       /\ allow_new_domains = req[i].pre.allow
       /\ domains = req[i].pre.domains
       /\ paused = req[i].pre.paused
       /\ devs = req[i].pre.devs
       /\ sessions = req[i].pre.sessions

\* VM.destroy of an existing domain was rejected by session_required while
\* another session is live, and the domain is still there
C6_Witness ==
  \E i \in Slots :
    /\ IsDone(req[i])
    /\ req[i].api = "VM.destroy"
    /\ Occurs(req[i], Reject("session_required"))
    /\ DOMAIN sessions # {}
    /\ req[i].args[2].v \in domains

(***************************************************************************)
(* Declared operations: canonical name and the handler name the naming      *)
(* convention gives (lower-cased class, '_get_' / '_set_' / '_', lower-     *)
(* cased declared name)                                                     *)
(***************************************************************************)
Declared ==
  UNION {
    {[api |-> cls \o ".get_" \o a,
      name |-> lower(cls) \o "_get_" \o lower(a)] :
        a \in Range(ro_attrs(cls)) \cup Range(rw_attrs(cls))
                \cup Range(Base_attr_ro)}
    \cup {[api |-> cls \o ".set_" \o a,
           name |-> lower(cls) \o "_set_" \o lower(a)] :
        a \in Range(rw_attrs(cls)) \cup Range(Base_attr_rw)}
    \cup {[api |-> cls \o "." \o m,
           name |-> lower(cls) \o "_" \o lower(m)] :
        m \in Range(methods(cls)) \cup Range(Base_methods)
                \cup Range(funcs(cls)) \cup Range(Base_funcs)}
    : cls \in ClassNames}

\* the handler functions getattr finds: the defs of the class body and the
\* two cheat methods of each class
Resolvable ==
  ClassDefs \cup {lower(cls) \o "_get_by_uuid" : cls \in ClassNames}
            \cup {lower(cls) \o "_get_uuid" : cls \in ClassNames}

(***************************************************************************)
(* C7: after composition the canonical name of a declared attribute,        *)
(* method or function is in the dispatch table if and only if the naming    *)
(* convention resolves to an implemented handler function.                  *)
(***************************************************************************)
C7_RegisteredIffResolvable ==
  Published =>
    LET reg == Registered
    IN \A d \in Declared : (d.api \in reg) <=> (d.name \in Resolvable)

\* the table is published with a mixed-case attribute in it and a declared
\* method without handler left out
C7_Witness ==
  /\ Published
  /\ "VM.get_VCPUs_number" \in Registered
  /\ "Host.to_XML" \notin Registered

(***************************************************************************)
(* C8: a declared operation whose handler function exists is registered     *)
(* under its canonical name, stubs included, and a stub answers             *)
(* UNSUPPORTED or TODO when called; a declared operation without handler    *)
(* function is left out of the table with a warning (Host.to_XML,           *)
(* Host.get_by_label, VBD.destroy and the VIF attribute getters are         *)
(* absent).                                                                 *)
(***************************************************************************)
StubDefs == UnsupportedDefs \cup TodoDefs \cup VmLookupTodoDefs

AllFuncApis == UNION {FuncApis[cls] : cls \in ClassNames}

C9_FunctionsSessionGuardOnly ==
  \A i \in Slots :
    req[i].api \in AllFuncApis
    => /\ attrs[req[i].name].chain = <<"session_required">>
       /\ \A k \in DOMAIN req[i].trace :
            req[i].trace[k].who \in {"session_required", "handler"}
       /\ IsDone(req[i]) =>
            IF SessionValidIn(req[i].pre, req[i].args[1])
            THEN /\ HandlerRan(req[i])
                 /\ req[i].trace[1] = Accept("session_required")
            ELSE /\ req[i].trace = <<Reject("session_required")>>
                 /\ req[i].resp = guard_failure(XEND_ERROR_SESSION_INVALID)

\* VM.get_by_label ran with a second argument that is not a string
C9_Witness ==
  \E i \in Slots :
    /\ IsDone(req[i])
    /\ req[i].api = "VM.get_by_label"
    /\ req[i].args[2] = PyInt("0")
    /\ HandlerRan(req[i])

(***************************************************************************)
(* C10 as stated: login with valid credentials answers success(token);      *)
(* Session.get_this_host(token) then answers success(host uuid); after      *)
(* Session.logout(token), Session.get_this_user(token) answers              *)
(* {Status: Error, ErrorDescription: SESSION_INVALID}.                      *)
(***************************************************************************)
LoggedOutIn(S, session) ==
  /\ session.v \in {NewUuid("tok", k) : k \in 0 .. S.issued - 1}
  /\ session.v \notin DOMAIN S.sessions

C10_SessionRoundTrip ==
  \A i \in Slots :
    IsDone(req[i]) =>
      /\ (req[i].api = "Session.login_with_password"
            /\ <<req[i].args[1].v, req[i].args[2].v>> \in Accounts)
         => /\ req[i].resp.Status = "Success"
            /\ req[i].resp.Value.v \in DOMAIN sessions
      /\ (req[i].api = "Session.get_this_host"
            /\ SessionValidIn(req[i].pre, req[i].args[1]))
         => req[i].resp = xen_api_success(PyStr(NodeUuid))
      /\ (req[i].api = "Session.get_this_user"
            /\ LoggedOutIn(req[i].pre, req[i].args[1]))
         => req[i].resp = xen_api_error(XEND_ERROR_SESSION_INVALID)

(***************************************************************************)
(* C11: Session.login_with_password is never wrapped by a guard and is the  *)
(* only published operation without one; called with credentials the auth   *)
(* manager accepts it answers success(token) with a token that is valid     *)
(* from then on, and called with credentials for which the auth manager     *)
(* raises XendError it answers {Status: Error, ErrorDescription:            *)
(* AUTHENTICATION_FAILED}, and no session is opened.                        *)
(***************************************************************************)
LoginName == "session_login_with_password"

C11_LoginUnguarded ==
  /\ LoginName \in DOMAIN attrs
  /\ attrs[LoginName].chain = <<>>
  /\ attrs[LoginName].api = "Session.login_with_password"
  /\ Published =>
       \A n \in Callable : attrs[n].chain = <<>> <=> n = LoginName
  /\ \A i \in Slots :
       (IsDone(req[i]) /\ req[i].name = LoginName) =>
         /\ req[i].trace = <<[who |-> "handler", what |-> LoginName]>>
         /\ IF is_authorized(req[i].args[1].v, req[i].args[2].v)
            THEN /\ req[i].resp.Status = "Success"
                 /\ IsStr(req[i].resp.Value)
                 /\ req[i].resp.Value.v \notin DOMAIN req[i].pre.sessions
                 /\ req[i].resp.Value.v \in DOMAIN sessions
                 /\ sessions[req[i].resp.Value.v] = req[i].args[1].v
            ELSE /\ req[i].resp =
                      xen_api_error(XEND_ERROR_AUTHENTICATION_FAILED)
                 /\ Collab = req[i].pre

\* a refused login after a successful one
C11_Witness ==
  /\ IsDone(req[1])
  /\ req[1].name = LoginName
  /\ req[1].resp = xen_api_error(XEND_ERROR_AUTHENTICATION_FAILED)
  /\ issued = 1
  /\ DOMAIN sessions # {}

(***************************************************************************)
(* C12: the composition pass terminates with every class processed; an      *)
(* operation whose handler is not found is the only one left out, with a    *)
(* warning, and every declared operation whose handler exists ends up       *)
(* registered under its canonical name with its full guard chain (the       *)
(* validators of its class, or session_required alone for a class           *)
(* function), whether it is declared after an unresolved one in the same    *)
(* list, in a later list or in another class.                               *)
(***************************************************************************)
\* declared operations with the guard chain the pass gives them
DeclaredChains ==
  UNION {
    {[api |-> getter_api(cls, a), name |-> getter_name(cls, a),
      chain |-> classes[cls]] : a \in Range(getter_attrs(cls))}
    \cup {[api |-> setter_api(cls, a), name |-> setter_name(cls, a),
           chain |-> classes[cls]] : a \in Range(setter_attrs(cls))}
    \cup {[api |-> method_api(cls, m), name |-> method_full_name(cls, m),
           chain |-> classes[cls]] : m \in Range(method_names(cls))}
    \cup {[api |-> method_api(cls, f), name |-> method_full_name(cls, f),
           chain |-> <<"session_required">>] : f \in Range(func_names(cls))}
    : cls \in ClassNames}

C12_AllProcessed ==
  /\ init.cheat_todo = {}
  /\ init.wrap_todo = {}
  /\ \A d \in DeclaredChains :
       IF d.name \in Resolvable
       THEN /\ d.name \in DOMAIN attrs
            /\ attrs[d.name].api = d.api
            /\ attrs[d.name].chain = d.chain
            /\ d.name \notin warned
       ELSE d.name \in warned /\ d.name \notin DOMAIN attrs

C12_PassCompletes == <>Published /\ [](Published => C12_AllProcessed)

\* host_to_xml was not found; Host.get_record, next in the same list,
\* Host.create, in the next list, and the operations of VIF are registered
C12_Witness ==
  /\ Published
  /\ "host_to_xml" \in warned
  /\ attrs["host_get_record"].api = "Host.get_record"
  /\ attrs["host_get_record"].chain = classes["Host"]
  /\ attrs["host_create"].chain = <<"session_required">>
  /\ attrs["vif_create"].api = "VIF.create"

(***************************************************************************)
(* C13: after composition no canonical name is carried by two different     *)
(* handlers, no handler is declared under two canonical names, and every    *)
(* handler resolved from a declaration carries the name built from the      *)
(* class and the operation as declared, case preserved:                     *)
(* vm_get_vcpus_number is tagged 'VM.get_VCPUs_number'.                     *)
(***************************************************************************)
\* no handler name is declared under two canonical names
DeclaredOnce == \A d, e \in Declared : d.name = e.name => d.api = e.api
\* the canonical name declared for a handler name
DeclaredApi ==
  [n \in {d.name : d \in Declared} |->
     (CHOOSE d \in Declared : d.name = n).api]

C13_UniqueCanonicalNames ==
  /\ DeclaredOnce
  /\ Published =>
       /\ Cardinality({attrs[n].api : n \in Callable}) = Cardinality(Callable)
       /\ \A n \in Callable \ {LoginName} :
            n \in DOMAIN DeclaredApi /\ attrs[n].api = DeclaredApi[n]
       /\ attrs["vm_get_vcpus_number"].api = "VM.get_VCPUs_number"

\* mixed-case declarations of three lists are in the published table
C13_Witness ==
  /\ Published
  /\ attrs["vm_get_vcpus_number"].api = "VM.get_VCPUs_number"
  /\ attrs["vm_set_vcpus_policy"].api = "VM.set_VCPUs_policy"
  /\ attrs["vm_to_xml"].api = "VM.to_XML"

PauseEntry == [body |-> "vm_pause", chain |-> classes["VM"], api |-> "VM.pause"]

C15_NeverBlocked ==
  /\ \A i \in Slots : req[i].pc # "idle" => ENABLED Step(i)
  /\ \A i \in Slots :
       (IsDone(req[i]) /\ req[i].api = "VM.pause"
          /\ Occurs(req[i], Accept("session_required"))
          /\ Occurs(req[i], Accept("valid_vm")))
       => req[i].trace[Len(req[i].trace)] =
            [who |-> "handler", what |-> "vm_pause"]
  /\ Published => attrs["vm_pause"] = PauseEntry

C15_ConcurrentPause ==
  []C15_NeverBlocked /\ [][Published => attrs' = attrs]_vars

\* two VM.pause for the same reference, both called before either paused
\* the domain, have both run domain_pause
C15_Witness ==
  /\ \A i \in Slots :
       /\ IsDone(req[i])
       /\ req[i].api = "VM.pause"
       /\ req[i].args[2] = PyStr(Dom0Uuid)
       /\ Dom0Uuid \notin req[i].pre.paused
       /\ HandlerRan(req[i])
       /\ req[i].resp = xen_api_success(PyNone)
  /\ paused = {Dom0Uuid}
  /\ attrs["vm_pause"] = PauseEntry

(***************************************************************************)
(* C16: when the session is valid and, for an operation with a reference    *)
(* guard, the reference is valid, the guarded operation runs the wrapped    *)
(* handler body exactly once, as its last step, on the arguments of the     *)
(* call, and its response and its effect on the collaborators are those     *)
(* the bare handler body gives on the same arguments in the same state.     *)
(***************************************************************************)
GuardsPass(r) ==
  /\ attrs[r.name].chain # <<>>
  /\ SessionValidIn(r.pre, r.args[1])
  /\ Len(attrs[r.name].chain) = 2 =>
       RefValidIn(ClassOfApi(r.api), r.pre, r.args[2])

HandlerRuns(r) ==
  Cardinality({k \in DOMAIN r.trace : r.trace[k].who = "handler"})

C16_GuardsTransparent ==
  \A i \in Slots :
    (IsDone(req[i]) /\ GuardsPass(req[i])) =>
      /\ HandlerRuns(req[i]) = 1
      /\ req[i].trace[Len(req[i].trace)] =
           [who |-> "handler", what |-> attrs[req[i].name].body]
      /\ \E o \in Run(attrs[req[i].name].body, req[i].args, req[i].pre) :
           req[i].resp = o.resp /\ Collab = o.S

\* VM.destroy with a valid session and a valid reference went through both
\* guards and removed the domain, as vm_destroy alone does
C16_Witness ==
  /\ IsDone(req[1])
  /\ req[1].api = "VM.destroy"
  /\ GuardsPass(req[1])
  /\ Len(req[1].trace) = 4
  /\ req[1].resp = xen_api_success(PyNone)
  /\ req[1].args[2].v \notin domains

(***************************************************************************)
(* C17: nothing is held between the guard and the handler: whenever the     *)
(* body of vm_get_record runs, valid_vm accepted the reference earlier in   *)
(* the same call, and the body answers {Status: Error, ErrorDescription:    *)
(* VM_INVALID} exactly when the domain is no longer there at that moment,   *)
(* which differs from the {Status: Failure} answer of the guard; there is   *)
(* an interleaving with VM.destroy in which this happens.                   *)
(***************************************************************************)
C17_GuardHandlerRace ==
  [][\A i \in Slots :
       (req[i].pc = "handler" /\ req[i].name = "vm_get_record"
          /\ req'[i].pc = "done") =>
         /\ Occurs(req[i], Accept("valid_vm"))
         /\ req'[i].resp =
              IF req[i].args[2].v \in domains
              THEN xen_api_success(PyDict(req[i].args[2].v))
              ELSE xen_api_error(XEND_ERROR_VM_INVALID)
         /\ req'[i].resp # guard_failure(XEND_ERROR_VM_INVALID)]_vars

\* valid_vm accepted the reference of a VM.get_record, the VM.destroy of the
\* other worker removed the domain, and the body answered VM_INVALID
C17_Witness ==
  \E i \in Slots :
    /\ IsDone(req[i])
    /\ req[i].api = "VM.get_record"
    /\ Occurs(req[i], Accept("valid_vm"))
    /\ HandlerRan(req[i])
    /\ req[i].args[2].v \in req[i].pre.domains
    /\ req[i].args[2].v \notin domains
    /\ req[i].resp = xen_api_error(XEND_ERROR_VM_INVALID)

(***************************************************************************)
(* C18: Session.destroy called with a valid token answers {Status: Error,   *)
(* ErrorDescription: UNSUPPORTED} and changes nothing, so the token is      *)
(* still valid and session_required still accepts it; a token stops being   *)
(* valid only in the step in which the body of session_logout runs for      *)
(* that token.                                                              *)
(***************************************************************************)
C18_DestroyLeavesSession ==
  \A i \in Slots :
    (IsDone(req[i]) /\ req[i].api = "Session.destroy"
       /\ SessionValidIn(req[i].pre, req[i].args[1]))
    => /\ req[i].resp = xen_api_error(XEND_ERROR_UNSUPPORTED)
       /\ Collab = req[i].pre
       /\ is_session_valid(Collab, req[i].args[1])
       /\ check_session(Collab, req[i].args).ok

C18_DestroyNeverEndsSession ==
  /\ []C18_DestroyLeavesSession
  /\ [][\A t \in DOMAIN sessions :
          t \notin DOMAIN sessions' =>
            \E i \in Slots :
              /\ req[i].pc = "handler"
              /\ attrs[req[i].name].body = "session_logout"
              /\ req[i].args[1] = PyStr(t)]_vars

\* Session.destroy of a live session was answered UNSUPPORTED and the
\* session is still there
C18_Witness ==
  /\ IsDone(req[1])
  /\ req[1].api = "Session.destroy"
  /\ HandlerRan(req[1])
  /\ req[1].resp = xen_api_error(XEND_ERROR_UNSUPPORTED)
  /\ req[1].args[1].v \in DOMAIN sessions

(***************************************************************************)
(* C19: with the guards passed, Host.disable sets allow_new_domains to      *)
(* false and Host.enable sets it to true, each answering success with the   *)
(* empty string and changing nothing else; Host.reboot and Host.shutdown    *)
(* change nothing and answer HOST_RUNNING when the flag is false and        *)
(* UNSUPPORTED when it is true, never success; and the flag changes only    *)
(* in a step that runs the body of host_disable or host_enable.             *)
(***************************************************************************)
C19_HostAnswers ==
  \A i \in Slots :
    (IsDone(req[i]) /\ HandlerRan(req[i])) =>
      /\ req[i].api = "Host.disable" =>
           /\ req[i].resp = xen_api_success(PyStr(""))
           /\ Collab = [req[i].pre EXCEPT !.allow = FALSE]
      /\ req[i].api = "Host.enable" =>
           /\ req[i].resp = xen_api_success(PyStr(""))
           /\ Collab = [req[i].pre EXCEPT !.allow = TRUE]
      /\ req[i].api \in {"Host.reboot", "Host.shutdown"} =>
           /\ Collab = req[i].pre
           /\ req[i].resp.Status # "Success"
           /\ req[i].resp =
                IF allow_new_domains
                THEN xen_api_error(XEND_ERROR_UNSUPPORTED)
                ELSE xen_api_error(XEND_ERROR_HOST_RUNNING)

C19_HostEnableDisable ==
  /\ []C19_HostAnswers
  /\ [][allow_new_domains' # allow_new_domains =>
          \E i \in Slots :
            /\ req[i].pc = "handler"
            /\ attrs[req[i].name].body =
                 IF allow_new_domains THEN "host_disable" ELSE "host_enable"]_vars

\* Host.shutdown answered HOST_RUNNING after an earlier Host.disable
C19_Witness ==
  /\ IsDone(req[1])
  /\ req[1].api = "Host.shutdown"
  /\ req[1].resp = xen_api_error(XEND_ERROR_HOST_RUNNING)
  /\ ~allow_new_domains

(***************************************************************************)
(* C20 as stated: after XendAPI has been constructed a second time every    *)
(* registered operation has the guard chain and the canonical name it had   *)
(* after the first construction: each guard of its class wraps the handler  *)
(* exactly once.                                                            *)
(***************************************************************************)
C20_CompositionIdempotent ==
  (Published /\ init.pass > 1) =>
    \A d \in DeclaredChains :
      d.name \in Resolvable =>
        /\ attrs[d.name].api = d.api
        /\ attrs[d.name].chain = d.chain

(***************************************************************************)
(* C21: VBD.create and VIF.create are wrapped with session_required only,   *)
(* never with valid_vbd or valid_vif. Called with a valid session and a     *)
(* struct, they answer {Status: Error, ErrorDescription: DOMAIN_INVALID}    *)
(* and create nothing when the 'VM' entry of the struct is not a valid      *)
(* domain; when it is, they answer either {Status: Error,                   *)
(* ErrorDescription: TODO}, the creation having raised XendError and left   *)
(* nothing behind, or success(reference) of a device that is new, of the    *)
(* kind asked for and attached to that domain.                              *)
(***************************************************************************)
DevKindOf == [vbd_create |-> "vbd", vif_create |-> "vif"]

C21_DeviceCreate ==
  /\ \A n \in DOMAIN DevKindOf :
       (n \in DOMAIN attrs /\ attrs[n].api # "") =>
         attrs[n].chain = <<"session_required">>
  /\ \A i \in Slots :
       (IsDone(req[i]) /\ req[i].name \in DOMAIN DevKindOf) =>
         LET r == req[i]
             kind == DevKindOf[r.name]
         IN /\ \A k \in DOMAIN r.trace :
                 r.trace[k].who \in {"session_required", "handler"}
            /\ (SessionValidIn(r.pre, r.args[1]) /\ r.args[2].t = "dict") =>
                 IF r.args[2].v \notin r.pre.domains
                 THEN /\ r.resp = xen_api_error(XEND_ERROR_DOMAIN_INVALID)
                      /\ Collab = r.pre
                 ELSE \/ /\ r.resp = xen_api_error(XEND_ERROR_TODO)
                         /\ Collab = r.pre
                      \/ /\ r.resp.Status = "Success"
                         /\ IsStr(r.resp.Value)
                         /\ ~is_valid_dev(r.pre, kind, r.resp.Value.v)
                         /\ devs = r.pre.devs
                              \cup {[kind |-> kind, uuid |-> r.resp.Value.v,
                                     vm |-> r.args[2].v]}
                         /\ domains = r.pre.domains

\* VIF.create for the existing domain answered with the reference of a new
\* network device, with no reference guard in its trace
C21_Witness ==
  /\ IsDone(req[1])
  /\ req[1].api = "VIF.create"
  /\ req[1].args[2] = PyDict(Dom0Uuid)
  /\ Len(req[1].trace) = 2
  /\ req[1].resp.Status = "Success"
  /\ is_valid_dev(Collab, "vif", req[1].resp.Value.v)

\* VBD.create whose struct names no domain answered DOMAIN_INVALID
C21_WitnessInvalid ==
  /\ IsDone(req[1])
  /\ req[1].api = "VBD.create"
  /\ SessionValidIn(req[1].pre, req[1].args[1])
  /\ req[1].resp = xen_api_error(XEND_ERROR_DOMAIN_INVALID)
  /\ devs = {}

====
